---- MODULE Spec2Model ----
(***************************************************************************)
(* Deploy API (src/deploy_api/src): a model of the deploy request handler  *)
(* of main.py and of the managers it drives: DockerManager (project        *)
(* directory), DeployManager (container lifecycle, port selection, nginx   *)
(* fragment, registry document), NginxManager (fragment text) and of       *)
(* utils.generate_hash.                                                    *)
(*                                                                         *)
(* The host is modelled by what the code observes of it: the docker        *)
(* daemon (containers by name, status and published port), the listeners   *)
(* on 127.0.0.1, the directories and files the code creates, and the       *)
(* process environment (LOCAL_TEST, RUN_ON_SERVER).                        *)
(***************************************************************************)
EXTENDS Integers, Sequences, FiniteSets, TLC

(***************************************************************************)
(* Bounds of the model.                                                    *)
(***************************************************************************)
\* host ports 1..NumPorts stand for the TCP ports of 127.0.0.1
NumPorts == 3
\* the ports 9000 + abs(hash(page_hash)) % 999 can take: 1..NumHashPorts
NumHashPorts == 2
\* listeners that are not containers of this service, at most that many at once
MaxForeign == 1
\* requests a behaviour holds
MaxDeploys == 3
\* requests a behaviour of concurrent workers holds
MaxConcDeploys == 2
\* requests a behaviour with changing flags holds
MaxEnvDeploys == 2
\* requests a behaviour with commands that never return holds
MaxLiveDeploys == 2
\* register_container calls in the model of ContainerRegistry
MaxRegisters == 3

Ports == 1..NumPorts
HashPorts == 1..NumHashPorts
\* the fingerprints (page_hash values) of the requests under study
Fingerprints == {"h1", "h2"}
\* the requests the server may be handling at once
Workers == {"w1", "w2"}

NoPort == 0
NoHash == ""
NoCall == [op |-> "none"]
\* LOCAL_TEST and RUN_ON_SERVER of the process; RUN_ON_SERVER is not read when
\* LOCAL_TEST is "1", so that pair is left out
Environments ==
    {e \in [LOCAL_TEST : BOOLEAN, RUN_ON_SERVER : BOOLEAN] : ~(e.LOCAL_TEST /\ e.RUN_ON_SERVER)}
NoRecord == [container_port |-> NoPort, container_name |-> ""]

VARIABLES
    env,        \* os.environ: [LOCAL_TEST, RUN_ON_SERVER], TRUE when set to "1"
    dockerUp,   \* the docker daemon answers (docker info returns 0, the socket connects)
    pyHash,     \* 9000 + abs(hash(page_hash)) % 999 of this interpreter, per fingerprint
    containers, \* docker's containers: records [name, port, status]
    foreign,    \* ports held by listeners that are not containers of this service
    projDirs,   \* <work_dir>/<page_hash>: "absent" or "dir"
    remoteDirs, \* /opt/deploy/<page_hash>: "absent" or "dir"
    registry,   \* /opt/deploy/registry.json: page_hash -> record (NoRecord: no key)
    fragments,  \* files of /etc/nginx/sites-available/deploy: records [path, content]
    mainConf,   \* the main nginx configuration the search finds: its lines
    pc,         \* per request: the statement it is at
    fp,         \* per request: page_hash
    hostPort,   \* per request: host_port / container_port
    found,      \* per request: container_exists of _deploy_container_direct
    dynamic,    \* per request: port_mapping is "127.0.0.1:0:8000"
    regCopy,    \* per request: the document read by _save_container_registry_direct
    err,        \* per request: the exception that ended it ("" while none)
    log,        \* per request: the commands deploy_container has issued so far
    pre,        \* per request: the port deploy-<page_hash> was running on when it began
    reload_success, \* per request: reload_success of _configure_nginx_direct
    mode,       \* per request: the branch deploy_container took ("" before it chose)
    lastPort,   \* per fingerprint: the port its last deploy returned (NoPort: none, or it failed)
    taken,      \* per fingerprint: another listener has held lastPort since it was returned
    served,     \* the requests received so far
    call        \* the call of generate_hash or create_container under study, with its result

hostVars == <<env, dockerUp, pyHash, containers, foreign, projDirs, remoteDirs, registry, fragments,
              mainConf>>
reqVars == <<pc, fp, hostPort, found, dynamic, regCopy, err, log, pre, reload_success, mode>>
histVars == <<lastPort, taken, served>>
vars == <<hostVars, reqVars, histVars, call>>

(***************************************************************************)
(* Names derived from the fingerprint.                                     *)
(***************************************************************************)
ContainerName(h) == "deploy-" \o h

ImageName(h) == "deploy-" \o h

DeployConfigDir == "/etc/nginx/sites-available/deploy"

(***************************************************************************)
(* What the code observes of the host.                                     *)
(***************************************************************************)
Running(cs, name) == {c \in cs : c.name = name /\ c.status = "running"}

\* sock.connect_ex(('127.0.0.1', port)) == 0
PortInUse(port) ==
    \/ port \in foreign
    \/ \E c \in containers : c.status = "running" /\ c.port = port

FreePorts == {p \in Ports : ~PortInUse(p)}

\* docker ps -a --filter name=^<name>$: the daemon must answer, the name be listed
ContainerExists(name) == dockerUp /\ \E c \in containers : c.name = name

\* docker stop <name>: the return code is not looked at
DockerStop(cs, name) ==
    IF dockerUp
    THEN {IF c.name = name THEN [c EXCEPT !.status = "exited"] ELSE c : c \in cs}
    ELSE cs

\* docker rm <name>: removes a container that is not running
DockerRm(cs, name) ==
    IF dockerUp
    THEN {c \in cs : ~(c.name = name /\ c.status # "running")}
    ELSE cs

(***************************************************************************)
(* File names and paths (docker_manager.py).  A name is a sequence of      *)
(* characters; a path is the sequence of its segments.                     *)
(***************************************************************************)
\* the longest file list of a request
MaxFiles == 2

ManifestName == <<"p", "a", "c", "k", "a", "g", "e", ".", "j", "s", "o", "n">>

\* the file names requests are drawn from:
\* "package.json", "/package.json", "a", "a/b", "", "../x", "../h1x"
FileNames ==
    { ManifestName,
      <<"/">> \o ManifestName,
      <<"a">>,
      <<"a", "/", "b">>,
      <<>>,
      <<".", ".", "/", "x">>,
      <<".", ".", "/", "h", "1", "x">> }

FileContents == {"c"}

FileEntries == [name : FileNames, content : FileContents]

RECURSIVE SeqsUpTo(_, _)
SeqsUpTo(S, n) ==
    IF n = 0 THEN {<<>>}
    ELSE LET shorter == SeqsUpTo(S, n - 1)
         IN  shorter \cup {Append(s, x) : s \in {t \in shorter : Len(t) = n - 1}, x \in S}

FileLists == SeqsUpTo(FileEntries, MaxFiles)

\* the characters of a page_hash
HashChars(h) == IF h = "h1" THEN <<"h", "1">> ELSE <<"h", "2">>

\* self.work_dir, an absolute path
WorkDir == << <<"w">> >>

\* os.path.join(self.work_dir, page_hash)
ProjectDir(h) == Append(WorkDir, HashChars(h))

IsPrefix(a, b) == Len(a) <= Len(b) /\ SubSeq(b, 1, Len(a)) = a

\* file_name.lstrip('/')
RECURSIVE LStripSlash(_)
LStripSlash(s) == IF s # <<>> /\ Head(s) = "/" THEN LStripSlash(Tail(s)) ELSE s

\* not file_name or file_name.strip() == ""
IsBlankName(s) == \A i \in 1..Len(s) : s[i] = " "

HasDotDotNever(s) == FALSE

\* '..' in file_name
HasDotDot(s) == \E i \in 1..(Len(s) - 1) : s[i] = "." /\ s[i + 1] = "."

\* the segments of a string of characters, split at "/"
RECURSIVE SplitSlash(_, _)
SplitSlash(s, cur) ==
    IF s = <<>> THEN <<cur>>
    ELSE IF Head(s) = "/" THEN <<cur>> \o SplitSlash(Tail(s), <<>>)
    ELSE SplitSlash(Tail(s), Append(cur, Head(s)))

\* os.path.normpath of an absolute path: "" and "." dropped, ".." climbs
RECURSIVE NormSegs(_, _)
NormSegs(segs, acc) ==
    IF segs = <<>> THEN acc
    ELSE LET g == Head(segs)
         IN  IF g = <<>> \/ g = <<".">> THEN NormSegs(Tail(segs), acc)
             ELSE IF g = <<".", ".">>
                  THEN NormSegs(Tail(segs), IF acc = <<>> THEN acc ELSE SubSeq(acc, 1, Len(acc) - 1))
                  ELSE NormSegs(Tail(segs), Append(acc, g))

\* the characters of an absolute path
RECURSIVE PathStr(_)
PathStr(path) == IF path = <<>> THEN <<>> ELSE <<"/">> \o Head(path) \o PathStr(Tail(path))

\* os.path.abspath(os.path.join(project_dir, file_name))
AbsPath(proj, fileName) == NormSegs(SplitSlash(PathStr(proj) \o <<"/">> \o fileName, <<>>), <<>>)

\* os.path.abspath(file_path).startswith(os.path.abspath(project_dir)): on characters
StartsWithProject(proj, path) == IsPrefix(PathStr(proj), PathStr(path))

\* the path is the project directory or lies below it
Inside(proj, path) == IsPrefix(proj, path)

IsManifestAlways(fileName) == TRUE

\* file_name == "package.json"
IsManifest(fileName) == fileName = ManifestName

\* the directories os.makedirs(os.path.dirname(file_path)) makes sure of
ParentDirs(path) == {SubSeq(path, 1, k) : k \in 1..(Len(path) - 1)}

\* the state of _save_files: files written, directories made, the flag, the error raised
SaveInit(proj) ==
    [written |-> {}, dirs |-> ParentDirs(proj) \cup {proj}, has_package_json |-> FALSE, err |-> ""]

\* one pass of the loop of _save_files; diskFails: open or write raises OSError
SaveOne(proj, fileData, diskFails, st) ==
    LET fileName == LStripSlash(fileData.name)
        path     == AbsPath(proj, fileName)
        \* a trailing "/" leaves dirname(file_path) equal to the whole path
        endsSlash == fileName = <<>> \/ fileName[Len(fileName)] = "/"
        newDirs  == IF endsSlash THEN ParentDirs(path) \cup {path} ELSE ParentDirs(path)
    IN  IF fileData.name = <<>> \/ IsBlankName(fileData.name)
        THEN [st EXCEPT !.err = "EmptyName"]
        ELSE IF HasDotDot(fileName)
        THEN [st EXCEPT !.err = "UnsafePath"]
        ELSE IF ~StartsWithProject(proj, path)
        THEN [st EXCEPT !.err = "OutsideProject"]
        ELSE IF path \in st.dirs
        THEN [st EXCEPT !.err = "IsDirectory"]
        ELSE IF newDirs \cap st.written # {}
        THEN [st EXCEPT !.has_package_json = @ \/ IsManifest(fileName), !.err = "WriteFailed"]
        ELSE IF diskFails \/ path \in newDirs
        THEN [st EXCEPT !.has_package_json = @ \/ IsManifest(fileName),
                        !.dirs = @ \cup newDirs, !.err = "WriteFailed"]
        ELSE [st EXCEPT !.has_package_json = @ \/ IsManifest(fileName),
                        !.dirs = @ \cup newDirs, !.written = @ \cup {path}]

RECURSIVE SaveFrom(_, _, _, _, _)
SaveFrom(proj, files, i, failAt, st) ==
    IF i > Len(files) \/ st.err # "" THEN st
    ELSE SaveFrom(proj, files, i + 1, failAt, SaveOne(proj, files[i], i = failAt, st))

\* _save_files(project_dir, files); failAt: the entry whose write raises (0: none)
SaveFiles(proj, files, failAt) ==
    LET st == SaveFrom(proj, files, 1, failAt, SaveInit(proj))
    IN  IF st.err = "" /\ ~st.has_package_json
        THEN [st EXCEPT !.err = "MissingManifest"]
        ELSE st

\* create_container(page_hash, files, telegram_id) on a project path that is
\* "absent", a "dir" or a "file"; failAt = Len(files) + 1: writing the Dockerfile raises.
\* The result: the state of the path, the files written, the error raised ("" if none)
CreateContainer(h, files, before, failAt) ==
    LET proj  == ProjectDir(h)
        st    == SaveFiles(proj, files, failAt)
        recipe == IF st.err # "" THEN st
                  ELSE IF failAt = Len(files) + 1 THEN [st EXCEPT !.err = "WriteFailed"]
                  ELSE [st EXCEPT !.written = @ \cup {Append(proj, <<"Dockerfile">>),
                                                      Append(proj, <<".dockerignore">>)}]
    IN  [dir     |-> IF recipe.err = "" THEN "dir" ELSE "absent",
         reused  |-> before = "dir",
         written |-> recipe.written,
         err     |-> recipe.err,
         image_name |-> ImageName(h)]

(***************************************************************************)
(* The fingerprint: utils.py generate_hash(telegram_id, files).  Strings   *)
(* are tuples of characters; a content is a text or a dict, the dict given *)
(* as its items in insertion order.                                        *)
(***************************************************************************)
Text(chars) == [kind |-> "str", chars |-> chars, items |-> <<>>]
Dict(items) == [kind |-> "dict", chars |-> <<>>, items |-> items]

\* the owners, names and contents calls are drawn from
HashOwners == {<<"u">>, <<"u", "a">>}
HashNames == {<<"a">>, <<"b">>}
HashContents ==
    { Text(<<"x">>),
      Text(<<"y">>),
      Dict(<< [key |-> <<"k">>, value |-> <<"x">>], [key |-> <<"l">>, value |-> <<"y">>] >>),
      Dict(<< [key |-> <<"l">>, value |-> <<"y">>], [key |-> <<"k">>, value |-> <<"x">>] >>) }
HashEntries == [name : HashNames, content : HashContents]
HashLists == SeqsUpTo(HashEntries, MaxFiles)

\* the code point of a character
Ord(c) == CASE c = "a" -> 97 [] c = "b" -> 98 [] c = "k" -> 107 [] c = "l" -> 108
            [] c = "u" -> 117 [] c = "x" -> 120 [] c = "y" -> 121
            [] c = "h" -> 104 [] c = "1" -> 49 [] c = "2" -> 50

\* a < b on Python strings
RECURSIVE StrLess(_, _)
StrLess(a, b) ==
    IF b = <<>> THEN FALSE
    ELSE IF a = <<>> THEN TRUE
    ELSE IF Head(a) = Head(b) THEN StrLess(Tail(a), Tail(b))
    ELSE Ord(Head(a)) < Ord(Head(b))

RECURSIVE InsertByName(_, _)
InsertByName(sorted, e) ==
    IF sorted = <<>> THEN <<e>>
    ELSE IF StrLess(e.name, Head(sorted).name) THEN <<e>> \o sorted
    ELSE <<Head(sorted)>> \o InsertByName(Tail(sorted), e)

Unsorted(files) == files

\* sorted(files, key=lambda x: x["name"]): entries of one name keep their order
RECURSIVE SortedByName(_)
SortedByName(files) ==
    IF files = <<>> THEN <<>>
    ELSE InsertByName(SortedByName(SubSeq(files, 1, Len(files) - 1)), files[Len(files)])

\* the items of a dict by ascending key (the keys of a dict differ)
SortKeys(items) ==
    CHOOSE s \in [1..Len(items) -> {items[i] : i \in 1..Len(items)}] :
        /\ \A i \in 1..Len(items) : \E j \in 1..Len(items) : s[j] = items[i]
        /\ \A i, j \in 1..Len(items) : i < j => StrLess(s[i].key, s[j].key)

Quoted(chars) == <<"\"">> \o chars \o <<"\"">>

RECURSIVE JoinItems(_)
JoinItems(items) ==
    IF items = <<>> THEN <<>>
    ELSE Quoted(Head(items).key) \o <<":", " ">> \o Quoted(Head(items).value)
         \o (IF Len(items) > 1 THEN <<",", " ">> ELSE <<>>) \o JoinItems(Tail(items))

\* json.dumps(content, sort_keys=True)
JsonDumps(items) == <<"{">> \o JoinItems(SortKeys(items)) \o <<"}">>

\* what one entry adds to data_string
EntryString(e) ==
    e.name \o (IF e.content.kind = "dict" THEN JsonDumps(e.content.items) ELSE e.content.chars)

RECURSIVE Concat(_)
Concat(entries) == IF entries = <<>> THEN <<>> ELSE EntryString(Head(entries)) \o Concat(Tail(entries))

\* data_string
DataString(telegram_id, files) == telegram_id \o Concat(SortedByName(files))

\* hashlib.sha256(...).hexdigest()[:12]; the digest stands for the string it was
\* computed from: two strings have one digest only if they are one string
Sha256Hex12(data) == <<"sha256", data>>

GenerateHash(telegram_id, files) == Sha256Hex12(DataString(telegram_id, files))

\* the value of a content, as Python's == compares it
ContentValue(c) ==
    IF c.kind = "dict" THEN <<"dict", {c.items[i] : i \in 1..Len(c.items)}>> ELSE <<"str", c.chars>>

SameEntry(d, e) == d.name = e.name /\ ContentValue(d.content) = ContentValue(e.content)

\* g holds the entries of f, in any order
IsReordering(f, g) ==
    /\ Len(f) = Len(g)
    /\ \E s \in [1..Len(f) -> 1..Len(f)] :
         /\ \A i, j \in 1..Len(f) : i # j => s[i] # s[j]
         /\ \A i \in 1..Len(f) : SameEntry(f[i], g[s[i]])

(***************************************************************************)
(* The main nginx configuration and the reload of nginx:                   *)
(* deploy_manager.py _ensure_include_in_main_config_direct and the reload  *)
(* cascade of _configure_nginx_direct.  A configuration is its lines, a    *)
(* line its words; "server {" and "x {" open a block, "}" closes one.      *)
(***************************************************************************)
MaxLines == 4
MaxPublishes == 3

\* no configuration file was found by the search (grep, ls, find)
NoConfig == << <<"none">> >>

\* include_line
IncludeLine == <<"include", DeployConfigDir, "/*.conf;">>

\* the lines configurations are made of
ConfLines ==
    { <<"server {">>, <<"x {">>, <<"x">>, <<"}">>,
      <<"server {", "x", "}">>,
      <<"#", DeployConfigDir>>,
      IncludeLine }

ConfTexts == SeqsUpTo(ConfLines, MaxLines)

HasWord(line, word) == \E k \in 1..Len(line) : line[k] = word

\* 'server {' in line
HasServerOpen(line) == HasWord(line, "server {")

CountWords(line, words) == Cardinality({k \in 1..Len(line) : line[k] \in words})

\* line.count('{'), line.count('}')
CountOpen(line) == CountWords(line, {"server {", "x {"})
CountClose(line) == CountWords(line, {"}"})

\* deploy_config_dir in content
MentionsDir(content) == \E i \in 1..Len(content) : HasWord(content[i], DeployConfigDir)

\* server_blocks.append((server_start, i)): the last one appended is used
ScanBlockEnd(lines, i, st) == [st EXCEPT !.last_block_end = i]

\* the loop over the lines: in_server, depth, the end of the last server block (0: none)
RECURSIVE ScanServerBlocks(_, _, _)
ScanServerBlocks(lines, i, st) ==
    IF i > Len(lines) THEN st
    ELSE IF HasServerOpen(lines[i])
         THEN ScanServerBlocks(lines, i + 1, [st EXCEPT !.in_server = TRUE, !.depth = 1])
    ELSE IF st.in_server
         THEN LET depth == st.depth + CountOpen(lines[i]) - CountClose(lines[i])
              IN  IF depth = 0
                  THEN ScanServerBlocks(lines, i + 1,
                           [ScanBlockEnd(lines, i, st) EXCEPT !.in_server = FALSE, !.depth = 0])
                  ELSE ScanServerBlocks(lines, i + 1, [st EXCEPT !.depth = depth])
    ELSE ScanServerBlocks(lines, i + 1, st)

\* lines.insert(index, line), index counted from 1 here
InsertLine(lines, index, line) ==
    SubSeq(lines, 1, index - 1) \o <<line>> \o SubSeq(lines, index, Len(lines))

\* _ensure_include_in_main_config_direct on the configuration found:
\* the content it leaves and whether it wrote the file
EnsureInclude(content) ==
    IF content = NoConfig \/ MentionsDir(content)
    THEN [content |-> content, written |-> FALSE]
    ELSE LET st == ScanServerBlocks(content, 1, [in_server |-> FALSE, depth |-> 0, last_block_end |-> 0])
         IN  IF st.last_block_end = 0
             THEN [content |-> content, written |-> FALSE]
             ELSE [content |-> InsertLine(content, st.last_block_end, IncludeLine), written |-> TRUE]

\* a main configuration of one server block, the fragments not included yet
PlainConfig == << <<"server {">>, <<"x">>, <<"}">> >>

\* the four ways nginx is asked to reload, in the order of the code
Mechanisms == <<"kill -HUP", "docker exec", "systemctl reload", "nginx -s reload">>

\* what a mechanism does when run: returns 0, returns another code, raises
Outcomes == {"ok", "fail", "raise"}

\* what the host offers to a reload: a pid file with a pid in it, systemctl on
\* the PATH, an nginx binary (nginx_cmd), and the outcome of each mechanism
ReloadHosts ==
    [pid : BOOLEAN, systemctl : BOOLEAN, nginx_cmd : BOOLEAN,
     rc : [{Mechanisms[k] : k \in 1..Len(Mechanisms)} -> Outcomes]]

AttemptAlways(st, mechanism, available, rc) ==
    IF ~available THEN st
    ELSE [st EXCEPT !.tried = Append(@, mechanism), !.reload_success = @ \/ rc = "ok"]

AttemptUncaught(st, mechanism, available, rc) ==
    IF st.reload_success \/ st.raised \/ ~available THEN st
    ELSE [tried |-> Append(st.tried, mechanism), reload_success |-> rc = "ok", raised |-> rc = "raise"]

\* if not reload_success (and the mechanism is there): run it once inside
\* try / except Exception, so that what it raises is logged and goes no further
Attempt(st, mechanism, available, rc) ==
    IF st.reload_success \/ ~available THEN st
    ELSE [st EXCEPT !.tried = Append(@, mechanism), !.reload_success = rc = "ok"]

\* _configure_nginx_direct 461-566: the mechanisms run, reload_success, and
\* whether an exception left the cascade
\* reload_success = False, nothing run yet
ReloadStart == [tried |-> <<>>, reload_success |-> FALSE, raised |-> FALSE]

\* what the k-th mechanism needs besides "not reload_success": a pid read from
\* a pid file, nothing, systemctl found by which, nginx_cmd
Available(host, k) ==
    CASE k = 1 -> host.pid
      [] k = 2 -> TRUE
      [] k = 3 -> host.systemctl
      [] k = 4 -> host.nginx_cmd

\* the k-th "if" of the cascade
ReloadStep(st, host, k) ==
    Attempt(st, Mechanisms[k], Available(host, k), host.rc[Mechanisms[k]])

ReloadCascade(host) ==
    ReloadStep(ReloadStep(ReloadStep(ReloadStep(ReloadStart, host, 1), host, 2), host, 3), host, 4)

(***************************************************************************)
(* The deploy request: main.py deploy(), one action per statement that     *)
(* reads or changes the host.                                              *)
(***************************************************************************)
\* the file list whose fingerprint is h: a manifest and a page
FilesOf(h) == << [name |-> ManifestName, content |-> "c"], [name |-> <<"a">>, content |-> "c"] >>

Goto(w, label) == pc' = [pc EXCEPT ![w] = label]

RaiseIgnored(w, e) == pc' = [pc EXCEPT ![w] = "nginx"] /\ err' = [err EXCEPT ![w] = e]

Raise(w, e) == pc' = [pc EXCEPT ![w] = "failed"] /\ err' = [err EXCEPT ![w] = e]

Issue(w, cmd) == log' = [log EXCEPT ![w] = @ \cup {cmd}]

RunningPort(h) ==
    IF Running(containers, ContainerName(h)) = {} THEN NoPort
    ELSE (CHOOSE c \in Running(containers, ContainerName(h)) : TRUE).port

\* a request arrives: generate_hash gives page_hash = h
Begin(w, h) ==
    /\ pc[w] = "idle"
    /\ served' = served + 1
    /\ pc' = [pc EXCEPT ![w] = "create"]
    /\ fp' = [fp EXCEPT ![w] = h]
    /\ pre' = [pre EXCEPT ![w] = RunningPort(h)]
    /\ UNCHANGED <<call, hostVars, hostPort, found, dynamic, regCopy, err, log, lastPort, taken,
                   reload_success, mode>>

\* main.py: one request at a time (the handler never yields between its first
\* and its last statement)
Start(w, h) == w = "w1" /\ served < MaxDeploys /\ Begin(w, h)

\* create_container on the files of each fingerprint, for each state of its
\* directory and each place a write may fail
CreateResults ==
    [h \in Fingerprints |->
        [before \in {"absent", "dir"} |->
            [failAt \in 0..(Len(FilesOf(h)) + 1) |->
                CreateContainer(h, FilesOf(h), before, failAt)]]]

\* main.py 67: docker_manager.create_container; a write may raise OSError
Materialize(w) ==
    /\ pc[w] = "create"
    /\ \E failAt \in 0..(Len(FilesOf(fp[w])) + 1) :
         LET r == CreateResults[fp[w]][projDirs[fp[w]]][failAt]
         IN  /\ projDirs' = [projDirs EXCEPT ![fp[w]] = r.dir]
             /\ IF r.err = "" THEN Goto(w, "mode") /\ err' = err
                ELSE Raise(w, r.err)
    /\ UNCHANGED <<call, env, dockerUp, pyHash, containers, foreign, remoteDirs, registry, fragments,
                   fp, hostPort, found, dynamic, regCopy, log, pre, histVars,
                   mainConf, reload_success, mode>>

\* _is_running_on_server: RUN_ON_SERVER == "1" or /var/run/docker.sock connects
IsRunningOnServer == env.RUN_ON_SERVER \/ dockerUp

\* deploy_container: the mode is read from the environment
SelectMode(w) ==
    /\ pc[w] = "mode"
    /\ IF env.LOCAL_TEST THEN Goto(w, "l_info") /\ err' = err
       ELSE IF IsRunningOnServer THEN Goto(w, "d_info") /\ err' = err
       ELSE Raise(w, "ModeUndetermined")
    /\ mode' = [mode EXCEPT ![w] = IF env.LOCAL_TEST THEN "local"
                                   ELSE IF IsRunningOnServer THEN "direct" ELSE @]
    /\ UNCHANGED <<call, hostVars, fp, hostPort, found, dynamic, regCopy, log, pre, histVars,
                   reload_success>>

DockerInfoUnchecked == FALSE

\* docker info: check_result.returncode != 0 raises
DockerInfoFails == ~dockerUp

\* _deploy_container_direct 104-114
DirectInfo(w) ==
    /\ pc[w] = "d_info"
    /\ IF DockerInfoFails THEN Raise(w, "RuntimeUnavailable")
       ELSE Goto(w, "d_prepare") /\ err' = err
    /\ UNCHANGED <<call, hostVars, fp, hostPort, found, dynamic, regCopy, log, pre, histVars,
                   reload_success, mode>>

\* _deploy_container_direct 116-158: the source directory is checked, the target
\* /opt/deploy/<page_hash> removed and copied anew; copytree may raise OSError
DirectPrepare(w) ==
    /\ pc[w] = "d_prepare"
    /\ IF projDirs[fp[w]] # "dir"
       THEN /\ Raise(w, "SourceMissing")
            /\ UNCHANGED <<call, remoteDirs, log,
                   mainConf, reload_success, mode>>
       ELSE \E copied \in BOOLEAN :
              /\ remoteDirs' = [remoteDirs EXCEPT ![fp[w]] = IF copied THEN "dir" ELSE "absent"]
              /\ log' = [log EXCEPT ![w] = @ \cup (IF remoteDirs[fp[w]] = "dir" THEN {"rmtree"} ELSE {})
                                             \cup {"copytree"}]
              /\ IF copied THEN Goto(w, "d_build") /\ err' = err
                 ELSE Raise(w, "CopyFailed")
    /\ UNCHANGED <<call, env, dockerUp, pyHash, containers, foreign, projDirs, registry, fragments,
                   fp, hostPort, found, dynamic, regCopy, pre, histVars,
                   mainConf, reload_success, mode>>

\* docker build -t <container_id> .: the outcomes of the build
BuildOutcomes == IF dockerUp THEN {TRUE, FALSE} ELSE {FALSE}

\* _deploy_container_direct 160-171
DirectBuild(w) ==
    /\ pc[w] = "d_build"
    /\ Issue(w, "build")
    /\ \E built \in BuildOutcomes :
         IF built THEN Goto(w, "d_check") /\ err' = err
         ELSE Raise(w, "BuildFailed")
    /\ UNCHANGED <<call, hostVars, fp, hostPort, found, dynamic, regCopy, pre, histVars,
                   reload_success, mode>>

\* _deploy_container_direct 173-180
DirectCheck(w) ==
    /\ pc[w] = "d_check"
    /\ found' = [found EXCEPT ![w] = ContainerExists(ContainerName(fp[w]))]
    /\ Goto(w, IF ContainerExists(ContainerName(fp[w])) THEN "d_stop" ELSE "d_port")
    /\ UNCHANGED <<call, hostVars, fp, hostPort, dynamic, regCopy, err, log, pre, histVars,
                   reload_success, mode>>

\* _deploy_container_direct 184-189
DirectStop(w) ==
    /\ pc[w] = "d_stop"
    /\ Issue(w, "stop")
    /\ containers' = DockerStop(containers, ContainerName(fp[w]))
    /\ Goto(w, "d_rm")
    /\ UNCHANGED <<call, env, dockerUp, pyHash, foreign, projDirs, remoteDirs, registry, fragments,
                   fp, hostPort, found, dynamic, regCopy, err, pre, histVars,
                   mainConf, reload_success, mode>>

\* _deploy_container_direct 190-195
DirectRm(w) ==
    /\ pc[w] = "d_rm"
    /\ Issue(w, "rm")
    /\ containers' = DockerRm(containers, ContainerName(fp[w]))
    /\ Goto(w, "d_port")
    /\ UNCHANGED <<call, env, dockerUp, pyHash, foreign, projDirs, remoteDirs, registry, fragments,
                   fp, hostPort, found, dynamic, regCopy, err, pre, histVars,
                   mainConf, reload_success, mode>>

NameNeverTaken(cs, name) == FALSE

\* docker refuses a second container of a name, whatever its status
NameTaken(cs, name) == \E c \in cs : c.name = name

\* docker run -d --name <name> -p 127.0.0.1:<port>:8000 <image>, port 0 asking the
\* daemon for a free one: the outcomes [rc, containers]. A container whose port
\* cannot be bound stays behind, created and not started
DockerRun(cs, name, port) ==
    IF ~dockerUp \/ NameTaken(cs, name)
    THEN {[rc |-> 1, containers |-> cs]}
    ELSE {[rc |-> 1, containers |-> cs]}
         \cup (IF port = NoPort
               THEN {[rc |-> 0, containers |-> cs \cup {[name |-> name, port |-> p, status |-> "running"]}]
                       : p \in FreePorts}
               ELSE IF PortInUse(port)
               THEN {[rc |-> 1, containers |-> cs \cup {[name |-> name, port |-> port, status |-> "created"]}]}
               ELSE {[rc |-> 0, containers |-> cs \cup {[name |-> name, port |-> port, status |-> "running"]}]})

\* the listeners a change of the containers has added on ports other fingerprints were given
TakenBy(h, cs) ==
    [g \in Fingerprints |->
        taken[g] \/ (g # h /\ lastPort[g] # NoPort
                     /\ \E c \in cs : c.status = "running" /\ c.port = lastPort[g]
                                     /\ c.name # ContainerName(g))]

\* _get_container_port_direct: the recorded port if nothing listens on it, else
\* the port the system gives to bind(('', 0))
GetContainerPortDirect(h) ==
    IF registry[h] # NoRecord /\ registry[h].container_port # NoPort
       /\ ~PortInUse(registry[h].container_port)
    THEN {registry[h].container_port}
    ELSE FreePorts

\* _deploy_container_direct 197-198
DirectPort(w) ==
    /\ pc[w] = "d_port"
    /\ IF GetContainerPortDirect(fp[w]) = {}
       THEN Raise(w, "NoFreePort") /\ hostPort' = hostPort
       ELSE /\ \E p \in GetContainerPortDirect(fp[w]) : hostPort' = [hostPort EXCEPT ![w] = p]
            /\ Goto(w, "d_run") /\ err' = err
    /\ UNCHANGED <<call, hostVars, fp, found, dynamic, regCopy, log, pre, histVars,
                   reload_success, mode>>

\* _deploy_container_direct 200-218
DirectRun(w) ==
    /\ pc[w] = "d_run"
    /\ Issue(w, "run")
    /\ \E r \in DockerRun(containers, ContainerName(fp[w]), hostPort[w]) :
         /\ containers' = r.containers
         /\ taken' = TakenBy(fp[w], r.containers)
         /\ IF r.rc = 0 THEN Goto(w, "nginx") /\ err' = err
            ELSE Raise(w, "StartFailed")
    /\ UNCHANGED <<call, env, dockerUp, pyHash, foreign, projDirs, remoteDirs, registry, fragments,
                   fp, hostPort, found, dynamic, regCopy, pre, lastPort, served,
                   mainConf, reload_success, mode>>

\* _deploy_container_local 239-249
LocalInfo(w) ==
    /\ pc[w] = "l_info"
    /\ IF DockerInfoFails THEN Raise(w, "RuntimeUnavailable")
       ELSE Goto(w, "l_stop") /\ err' = err
    /\ UNCHANGED <<call, hostVars, fp, hostPort, found, dynamic, regCopy, log, pre, histVars,
                   reload_success, mode>>

\* _deploy_container_local 253-258
LocalStop(w) ==
    /\ pc[w] = "l_stop"
    /\ Issue(w, "stop")
    /\ containers' = DockerStop(containers, ContainerName(fp[w]))
    /\ Goto(w, "l_rm")
    /\ UNCHANGED <<call, env, dockerUp, pyHash, foreign, projDirs, remoteDirs, registry, fragments,
                   fp, hostPort, found, dynamic, regCopy, err, pre, histVars,
                   mainConf, reload_success, mode>>

\* _deploy_container_local 259-263
LocalRm(w) ==
    /\ pc[w] = "l_rm"
    /\ Issue(w, "rm")
    /\ containers' = DockerRm(containers, ContainerName(fp[w]))
    /\ Goto(w, "l_build")
    /\ UNCHANGED <<call, env, dockerUp, pyHash, foreign, projDirs, remoteDirs, registry, fragments,
                   fp, hostPort, found, dynamic, regCopy, err, pre, histVars,
                   mainConf, reload_success, mode>>

\* _deploy_container_local 265-276
LocalBuild(w) ==
    /\ pc[w] = "l_build"
    /\ Issue(w, "build")
    /\ \E built \in BuildOutcomes :
         IF built THEN Goto(w, "l_probe") /\ err' = err
         ELSE Raise(w, "BuildFailed")
    /\ UNCHANGED <<call, hostVars, fp, hostPort, found, dynamic, regCopy, pre, histVars,
                   reload_success, mode>>

\* _deploy_container_local 278-293: the computed port, and whether something listens on it
LocalProbe(w) ==
    /\ pc[w] = "l_probe"
    /\ hostPort' = [hostPort EXCEPT ![w] = pyHash[fp[w]]]
    /\ dynamic' = [dynamic EXCEPT ![w] = PortInUse(pyHash[fp[w]])]
    /\ Goto(w, "l_run")
    /\ UNCHANGED <<call, hostVars, fp, found, regCopy, err, log, pre, histVars,
                   reload_success, mode>>

\* _deploy_container_local 295-310
LocalRun(w) ==
    /\ pc[w] = "l_run"
    /\ Issue(w, "run")
    /\ \E r \in DockerRun(containers, ContainerName(fp[w]), IF dynamic[w] THEN NoPort ELSE hostPort[w]) :
         /\ containers' = r.containers
         /\ taken' = TakenBy(fp[w], r.containers)
         /\ IF r.rc = 0 THEN Goto(w, "l_port") /\ err' = err
            ELSE Raise(w, "StartFailed")
    /\ UNCHANGED <<call, env, dockerUp, pyHash, foreign, projDirs, remoteDirs, registry, fragments,
                   fp, hostPort, found, dynamic, regCopy, pre, lastPort, served,
                   mainConf, reload_success, mode>>

\* docker port <name>: the published port, when the daemon answers and the container runs
DockerPort(name) ==
    IF dockerUp /\ Running(containers, name) # {}
    THEN (CHOOSE c \in Running(containers, name) : TRUE).port
    ELSE NoPort

\* _deploy_container_local 312-333: real_port, or host_port when docker port gave none
LocalPort(w) ==
    /\ pc[w] = "l_port"
    /\ hostPort' = [hostPort EXCEPT ![w] =
            IF DockerPort(ContainerName(fp[w])) # NoPort
            THEN DockerPort(ContainerName(fp[w])) ELSE @]
    /\ Goto(w, "nginx")
    /\ UNCHANGED <<call, hostVars, fp, found, dynamic, regCopy, err, log, pre, histVars,
                   reload_success, mode>>

(***************************************************************************)
(* Route publishing: nginx_manager.py and DeployManager.configure_nginx.   *)
(***************************************************************************)
GenerateNginxLocationRecorded(h, port) ==
    [location |-> h, proxy_pass |-> registry[h].container_port,
     assets_proxy_pass |-> registry[h].container_port, redirect |-> h]

\* generate_nginx_location: the three location blocks of the fragment
GenerateNginxLocation(h, port) ==
    [location |-> h, proxy_pass |-> port, assets_proxy_pass |-> port, redirect |-> h]

\* f"{deploy_config_dir}/{page_hash}.conf"
LocationConfigFile(h) == <<DeployConfigDir, h, ".conf">>

AppendFile(files, path, text) ==
    {f \in files : f.path # path}
    \cup {[path |-> path,
           content |-> IF \E f \in files : f.path = path
                       THEN (CHOOSE f \in files : f.path = path).content \o <<text>>
                       ELSE <<text>>]}

\* open(path, 'w'); f.write(text): the file holds text and nothing else
WriteFile(files, path, text) ==
    {f \in files : f.path # path} \cup {[path |-> path, content |-> <<text>>]}

\* main.py 94-105, configure_nginx 391-396: nothing is published under LOCAL_TEST
PublishesAlways == FALSE

\* configure_nginx 391-393: os.environ.get("LOCAL_TEST") == "1"
PublishesNothing == env.LOCAL_TEST

Nginx(w) ==
    /\ pc[w] = "nginx"
    /\ Goto(w, IF PublishesNothing THEN "done" ELSE "n_write")
    /\ UNCHANGED <<call, hostVars, fp, hostPort, found, dynamic, regCopy, err, log, pre, histVars,
                   reload_success, mode>>

\* _configure_nginx_direct 410-430
NginxWrite(w) ==
    /\ pc[w] = "n_write"
    /\ fragments' = WriteFile(fragments, LocationConfigFile(fp[w]),
                              GenerateNginxLocation(fp[w], hostPort[w]))
    /\ Goto(w, "n_include")
    /\ UNCHANGED <<call, env, dockerUp, pyHash, containers, foreign, projDirs, remoteDirs, registry,
                   fp, hostPort, found, dynamic, regCopy, err, log, pre, histVars,
                   mainConf, reload_success, mode>>

\* reload_success after the cascade, over all the hosts
ReloadResults ==
    {[reload_success |-> ReloadCascade(host).reload_success, raised |-> ReloadCascade(host).raised] :
        host \in ReloadHosts}

\* _configure_nginx_direct 432-433: the include is looked for in the main
\* configuration and added; a search that outlasts its timeout raises
NginxInclude(w) ==
    /\ pc[w] = "n_include"
    /\ \/ /\ mainConf' = EnsureInclude(mainConf).content
          /\ log' = [log EXCEPT ![w] = IF EnsureInclude(mainConf).written
                                       THEN @ \cup {"write_main_config"} ELSE @]
          /\ Goto(w, "n_reload") /\ err' = err
       \/ /\ Raise(w, "CommandTimeout")
          /\ UNCHANGED <<mainConf, log>>
    /\ UNCHANGED <<call, env, dockerUp, pyHash, containers, foreign, projDirs, remoteDirs, registry,
                   fragments, fp, hostPort, found, dynamic, regCopy, pre, reload_success, mode, histVars>>

\* _configure_nginx_direct 435-566: nginx -t (its result is only logged, its
\* timeout raises), then the reload cascade, which never raises
NginxReload(w) ==
    /\ pc[w] = "n_reload"
    /\ \/ \E result \in ReloadResults :
            /\ reload_success' = [reload_success EXCEPT ![w] = result.reload_success]
            /\ IF result.raised THEN Raise(w, "ReloadFailed")
               ELSE Goto(w, "n_read") /\ err' = err
       \/ /\ Raise(w, "CommandTimeout")
          /\ UNCHANGED reload_success
    /\ UNCHANGED <<call, hostVars, fp, hostPort, found, dynamic, regCopy, log, pre, mode, histVars>>

SavedDocumentLocked(doc, h, port, name) ==
    [registry EXCEPT ![h] = [container_port |-> port, container_name |-> name]]

SavedDocumentAlone(doc, h, port, name) ==
    [g \in Fingerprints |->
        IF g = h THEN [container_port |-> port, container_name |-> name] ELSE NoRecord]

\* registry[page_hash] = {"container_port": ..., "container_name": ...}
SavedDocument(doc, h, port, name) ==
    [doc EXCEPT ![h] = [container_port |-> port, container_name |-> name]]

\* _save_container_registry_direct 705-714: the whole document is read
RegistryRead(w) ==
    /\ pc[w] = "n_read"
    /\ regCopy' = [regCopy EXCEPT ![w] = registry]
    /\ Goto(w, "n_save")
    /\ UNCHANGED <<call, hostVars, fp, hostPort, found, dynamic, err, log, pre, histVars,
                   reload_success, mode>>

\* _save_container_registry_direct 716-722: the entry is set, the whole document written
RegistrySave(w) ==
    /\ pc[w] = "n_save"
    /\ registry' = SavedDocument(regCopy[w], fp[w], hostPort[w], ContainerName(fp[w]))
    /\ Goto(w, "done")
    /\ UNCHANGED <<call, env, dockerUp, pyHash, containers, foreign, projDirs, remoteDirs, fragments,
                   fp, hostPort, found, dynamic, regCopy, err, log, pre, histVars,
                   mainConf, reload_success, mode>>

\* main.py 120-143: the response (the URL, or HTTP 500) is returned
Finish(w) ==
    /\ pc[w] \in {"done", "failed"}
    /\ lastPort' = [lastPort EXCEPT ![fp[w]] = IF pc[w] = "done" THEN hostPort[w] ELSE NoPort]
    /\ taken' = [taken EXCEPT ![fp[w]] = FALSE]
    /\ pc' = [pc EXCEPT ![w] = "idle"]
    /\ hostPort' = [hostPort EXCEPT ![w] = NoPort]
    /\ found' = [found EXCEPT ![w] = FALSE]
    /\ dynamic' = [dynamic EXCEPT ![w] = FALSE]
    /\ regCopy' = [regCopy EXCEPT ![w] = [h \in Fingerprints |-> NoRecord]]
    /\ err' = [err EXCEPT ![w] = ""]
    /\ log' = [log EXCEPT ![w] = {}]
    /\ pre' = [pre EXCEPT ![w] = NoPort]
    /\ fp' = [fp EXCEPT ![w] = NoHash]
    /\ reload_success' = [reload_success EXCEPT ![w] = FALSE]
    /\ mode' = [mode EXCEPT ![w] = ""]
    /\ UNCHANGED <<call, hostVars, served>>

(***************************************************************************)
(* The host's own steps.                                                   *)
(***************************************************************************)
\* another program starts listening on a free port
ForeignBind(p) ==
    /\ p \in FreePorts
    /\ Cardinality(foreign) < MaxForeign
    /\ foreign' = foreign \cup {p}
    /\ taken' = [g \in Fingerprints |-> taken[g] \/ lastPort[g] = p]
    /\ UNCHANGED <<call, env, dockerUp, pyHash, containers, projDirs, remoteDirs, registry, fragments,
                   reqVars, lastPort, served,
                   mainConf>>

ForeignRelease(p) ==
    /\ p \in foreign
    /\ foreign' = foreign \ {p}
    /\ UNCHANGED <<call, env, dockerUp, pyHash, containers, projDirs, remoteDirs, registry, fragments,
                   reqVars, histVars,
                   mainConf>>

\* the docker daemon stops answering, or answers again
DaemonToggle ==
    /\ dockerUp' = ~dockerUp
    /\ UNCHANGED <<call, env, pyHash, containers, foreign, projDirs, remoteDirs, registry, fragments,
                   reqVars, histVars,
                   mainConf>>

\* nothing deployed, no request under way
HostIdle ==
    /\ containers = {}
    /\ foreign = {}
    /\ projDirs = [h \in Fingerprints |-> "absent"]
    /\ remoteDirs = [h \in Fingerprints |-> "absent"]
    /\ registry = [h \in Fingerprints |-> NoRecord]
    /\ fragments = {}
    /\ mainConf = PlainConfig
    /\ reload_success = [w \in Workers |-> FALSE]
    /\ mode = [w \in Workers |-> ""]
    /\ pc = [w \in Workers |-> "idle"]
    /\ fp = [w \in Workers |-> NoHash]
    /\ hostPort = [w \in Workers |-> NoPort]
    /\ found = [w \in Workers |-> FALSE]
    /\ dynamic = [w \in Workers |-> FALSE]
    /\ regCopy = [w \in Workers |-> [h \in Fingerprints |-> NoRecord]]
    /\ err = [w \in Workers |-> ""]
    /\ log = [w \in Workers |-> {}]
    /\ pre = [w \in Workers |-> NoPort]
    /\ lastPort = [h \in Fingerprints |-> NoPort]
    /\ taken = [h \in Fingerprints |-> FALSE]
    /\ served = 0

Init ==
    /\ env \in Environments
    /\ dockerUp \in BOOLEAN
    /\ pyHash \in (IF env.LOCAL_TEST THEN [Fingerprints -> HashPorts] ELSE {[h \in Fingerprints |-> 1]})
    /\ HostIdle
    /\ call = NoCall

Step(w) ==
    \/ Materialize(w) \/ SelectMode(w)
    \/ DirectInfo(w) \/ DirectPrepare(w) \/ DirectBuild(w) \/ DirectCheck(w)
    \/ DirectStop(w) \/ DirectRm(w) \/ DirectPort(w) \/ DirectRun(w)
    \/ LocalInfo(w) \/ LocalStop(w) \/ LocalRm(w) \/ LocalBuild(w)
    \/ LocalProbe(w) \/ LocalRun(w) \/ LocalPort(w)
    \/ Nginx(w) \/ NginxWrite(w) \/ NginxInclude(w) \/ NginxReload(w) \/ RegistryRead(w) \/ RegistrySave(w)
    \/ Finish(w)

Host ==
    \/ \E p \in Ports : ForeignBind(p) \/ ForeignRelease(p)
    \/ DaemonToggle

\* requests handled one at a time
Next ==
    \/ \E w \in Workers, h \in Fingerprints : Start(w, h)
    \/ \E w \in Workers : Step(w)
    \/ Host

Spec == Init /\ [][Next]_vars

\* a request arrives while another may be under way
StartConc(w, h) == served < MaxConcDeploys /\ Begin(w, h)

\* requests handled by several workers at once, no other program taking ports
NextConc ==
    \/ \E w \in Workers, h \in Fingerprints : StartConc(w, h)
    \/ \E w \in Workers : Step(w)
    \/ DaemonToggle

SpecConc == Init /\ [][NextConc]_vars

\* os.environ is changed inside the running process
EnvChange ==
    /\ \E e \in Environments \ {env} : env' = e
    /\ UNCHANGED <<call, dockerUp, pyHash, containers, foreign, projDirs, remoteDirs, registry,
                   fragments, mainConf, reqVars, histVars>>

StartEnv(w, h) == w = "w1" /\ served < MaxEnvDeploys /\ Begin(w, h)

\* requests handled one at a time while the flags may change under them
NextEnv ==
    \/ \E w \in Workers, h \in Fingerprints : StartEnv(w, h)
    \/ \E w \in Workers : Step(w)
    \/ DaemonToggle
    \/ EnvChange

SpecEnv == Init /\ [][NextEnv]_vars

\* the docker commands deploy_container waits on
Commands == {"info", "build", "ps", "stop", "rm", "run", "port"}

\* the command run by the statement at a label ("": none)
CommandAt(label) ==
    CASE label \in {"d_info", "l_info"} -> "info"
      [] label \in {"d_build", "l_build"} -> "build"
      [] label = "d_check" -> "ps"
      [] label \in {"d_stop", "l_stop"} -> "stop"
      [] label \in {"d_rm", "l_rm"} -> "rm"
      [] label \in {"d_run", "l_run"} -> "run"
      [] label = "l_port" -> "port"
      [] OTHER -> ""

\* subprocess.run(..., timeout=...): all of them but docker stop and docker rm
\* of _deploy_container_local (254-263)
HasTimeout(label) == label \notin {"l_stop", "l_rm"}

\* the command the request is about to run never returns
Hangs(w) == call.op = "deploy" /\ CommandAt(pc[w]) \in call.hangs

\* subprocess.TimeoutExpired ends the request
CommandTimeout(w) ==
    /\ Hangs(w) /\ HasTimeout(pc[w])
    /\ Raise(w, "CommandTimeout")
    /\ UNCHANGED <<call, hostVars, fp, hostPort, found, dynamic, regCopy, log, pre, reload_success,
                   mode, histVars>>

\* a statement whose command never returns and has no timeout is never left
StepLive(w) == (~Hangs(w) /\ Step(w)) \/ CommandTimeout(w)

StartLive(w, h) == w = "w1" /\ served < MaxLiveDeploys /\ Begin(w, h)

\* at most one of the commands never returns
InitLive ==
    /\ env \in Environments
    /\ dockerUp \in BOOLEAN
    /\ pyHash = [h \in Fingerprints |-> 1]
    /\ HostIdle
    /\ call \in {[op |-> "deploy", hangs |-> {}]}
                \cup {[op |-> "deploy", hangs |-> {c}] : c \in Commands}

NextLive ==
    \/ \E w \in Workers, h \in Fingerprints : StartLive(w, h)
    \/ \E w \in Workers : StepLive(w)
    \/ DaemonToggle

\* the process goes on to its next statement
SpecLive == InitLive /\ [][NextLive]_vars /\ \A w \in Workers : WF_vars(StepLive(w))

\* the host while a single function is called
HostStill ==
    /\ env = [LOCAL_TEST |-> FALSE, RUN_ON_SERVER |-> TRUE]
    /\ dockerUp = TRUE
    /\ pyHash = [h \in Fingerprints |-> 1]
    /\ HostIdle

\* generate_hash is called on a list, and on a list of the same entries
HashCall(t, f, g) ==
    [op |-> "generate_hash", telegram_id |-> t, files |-> f, again |-> g,
     done |-> FALSE, hash |-> <<>>, hash_again |-> <<>>]

HashCalls ==
    UNION { {HashCall(t, f, g) : t \in HashOwners, g \in {l \in HashLists : IsReordering(f, l)}} :
            f \in HashLists }

InitHash == HostStill /\ call \in HashCalls

CallGenerateHash ==
    /\ call.op = "generate_hash" /\ ~call.done
    /\ call' = [call EXCEPT !.done = TRUE,
                            !.hash = GenerateHash(call.telegram_id, call.files),
                            !.hash_again = GenerateHash(call.telegram_id, call.again)]
    /\ UNCHANGED <<hostVars, reqVars, histVars>>

NextHash == CallGenerateHash

SpecHash == InitHash /\ [][NextHash]_vars

\* generate_hash is called on two inputs, whatever they are
PairNames == HashNames \cup {<<"a", "b">>}
PairContents == {Text(<<"x">>), Text(<<"y">>)}
PairLists == SeqsUpTo([name : PairNames, content : PairContents], MaxFiles)

PairCalls ==
    { [op |-> "generate_hash_twice", telegram_id |-> t, files |-> f,
       other_id |-> u, other_files |-> g, done |-> FALSE,
       data |-> <<>>, other_data |-> <<>>, hash |-> <<>>, other_hash |-> <<>>] :
         t \in HashOwners, f \in PairLists, u \in HashOwners, g \in PairLists }

InitPair == HostStill /\ call \in PairCalls

CallGenerateHashTwice ==
    /\ call.op = "generate_hash_twice" /\ ~call.done
    /\ call' = [call EXCEPT !.done = TRUE,
                            !.data = DataString(call.telegram_id, call.files),
                            !.other_data = DataString(call.other_id, call.other_files),
                            !.hash = GenerateHash(call.telegram_id, call.files),
                            !.other_hash = GenerateHash(call.other_id, call.other_files)]
    /\ UNCHANGED <<hostVars, reqVars, histVars>>

NextPair == CallGenerateHashTwice

SpecPair == InitPair /\ [][NextPair]_vars

\* create_container is called on a file list, the project path absent, a
\* directory or a file, and one write (or none) raising
MatCalls ==
    { [op |-> "create_container", page_hash |-> h, files |-> f, before |-> b, failAt |-> k,
       done |-> FALSE, result |-> [dir |-> b, reused |-> FALSE, written |-> {}, err |-> "",
                                   image_name |-> ""]] :
         h \in Fingerprints, f \in FileLists, b \in {"absent", "dir", "file"}, k \in 0..(MaxFiles + 1) }

(***************************************************************************)
(* The reload cascade alone, one "if" at a time, on every host.            *)
(***************************************************************************)
ReloadCalls ==
    {[op |-> "reload", host |-> host, step |-> 1, st |-> ReloadStart] : host \in ReloadHosts}

InitReload == HostStill /\ call \in ReloadCalls

CallReloadStep ==
    /\ call.op = "reload" /\ call.step <= Len(Mechanisms)
    /\ call' = [call EXCEPT !.step = @ + 1, !.st = ReloadStep(call.st, call.host, call.step)]
    /\ UNCHANGED <<hostVars, reqVars, histVars>>

NextReload == CallReloadStep

SpecReload == InitReload /\ [][NextReload]_vars

(***************************************************************************)
(* _ensure_include_in_main_config_direct alone: publish after publish      *)
(* against one main configuration (or none found).                         *)
(***************************************************************************)
IncludeCalls ==
    {[op |-> "ensure_include", initial |-> content, content |-> content,
      publishes |-> 0, written |-> FALSE, before |-> content] : content \in ConfTexts \cup {NoConfig}}

InitInclude == HostStill /\ call \in IncludeCalls

CallEnsureInclude ==
    /\ call.op = "ensure_include" /\ call.publishes < MaxPublishes
    /\ call' = [call EXCEPT !.publishes = @ + 1,
                            !.before = call.content,
                            !.content = EnsureInclude(call.content).content,
                            !.written = EnsureInclude(call.content).written]
    /\ UNCHANGED <<hostVars, reqVars, histVars>>

NextInclude == CallEnsureInclude

SpecInclude == InitInclude /\ [][NextInclude]_vars

(***************************************************************************)
(* _save_container_registry_direct alone, on every registry document, the  *)
(* document readable or not.                                               *)
(***************************************************************************)
RegistryDocs ==
    {d \in [Fingerprints -> {NoRecord} \cup {[container_port |-> p, container_name |-> ContainerName(g)] :
                                              p \in Ports, g \in Fingerprints}] :
        \A g \in Fingerprints : d[g] = NoRecord \/ d[g].container_name = ContainerName(g)}

\* registry = {}; the file is loaded if json.load succeeds ("except: pass");
\* the entry is set and the document written
SaveContainerRegistryDirect(disk, readable, h, port, name) ==
    SavedDocument(IF readable THEN disk ELSE [g \in Fingerprints |-> NoRecord], h, port, name)

SaveCalls ==
    {[op |-> "save_registry", disk |-> d, readable |-> r, page_hash |-> h, container_port |-> p,
      done |-> FALSE, result |-> d] :
        d \in RegistryDocs, r \in BOOLEAN, h \in Fingerprints, p \in Ports}

InitSave == HostStill /\ call \in SaveCalls

CallSaveContainerRegistryDirect ==
    /\ call.op = "save_registry" /\ ~call.done
    /\ call' = [call EXCEPT !.done = TRUE,
                            !.result = SaveContainerRegistryDirect(call.disk, call.readable,
                                           call.page_hash, call.container_port,
                                           ContainerName(call.page_hash))]
    /\ UNCHANGED <<hostVars, reqVars, histVars>>

SpecSave == InitSave /\ [][CallSaveContainerRegistryDirect]_vars

(***************************************************************************)
(* _deploy_container_direct up to the build, alone, on every state of the  *)
(* two directories: <work_dir>/<page_hash>, where DockerManager writes the *)
(* project, and /opt/deploy/<page_hash>, where the image is built.  The    *)
(* directory passed in is one or the other (work_dir may be /opt/deploy).  *)
(***************************************************************************)
PrepPaths == {"work_dir", "opt_deploy"}

RemoteProjectDir == "opt_deploy"

\* a path holds nothing, a regular file, an empty directory, the materialized
\* project, or what an earlier deploy left there
PathStates == {"absent", "file", "empty", "project", "stale"}

PrepCalls ==
    {c \in [op : {"prepare"}, container_dir : PrepPaths, fs : [PrepPaths -> PathStates],
            source : PathStates, daemonUp : BOOLEAN, copyFails : BOOLEAN,
            step : {"info"}, context : {"none"}, error : {""}] :
        /\ c.source = c.fs[c.container_dir]
        /\ c.source \in {"absent", "file", "project"}
        /\ c.fs[RemoteProjectDir] # "empty"
        /\ c.container_dir = RemoteProjectDir => c.fs["work_dir"] = "absent" /\ ~c.copyFails
        /\ c.container_dir # RemoteProjectDir => c.fs["work_dir"] # "stale"}

InitPrep == HostStill /\ call \in PrepCalls

PrepStep(c) == call' = c /\ UNCHANGED <<hostVars, reqVars, histVars>>

PrepFail(e) == PrepStep([call EXCEPT !.step = "failed", !.error = e])

\* 105-114
PrepInfo ==
    /\ call.op = "prepare" /\ call.step = "info"
    /\ IF call.daemonUp THEN PrepStep([call EXCEPT !.step = "check"])
       ELSE PrepFail("RuntimeUnavailable")

\* 119-137: the basename of both directories is the fingerprint
PrepCheck ==
    /\ call.op = "prepare" /\ call.step = "check"
    /\ IF call.fs[call.container_dir] = "absent" THEN PrepFail("SourceMissing")
       ELSE IF call.fs[call.container_dir] = "file" THEN PrepFail("SourceNotDirectory")
       ELSE PrepStep([call EXCEPT !.step = "remove"])

\* 140-145: whatever is at /opt/deploy/<page_hash> is removed
PrepRemove ==
    /\ call.op = "prepare" /\ call.step = "remove"
    /\ PrepStep([call EXCEPT !.step = "copy", !.fs[RemoteProjectDir] = "absent"])

\* 148-158: copytree when the paths differ, makedirs(exist_ok) when they are equal
PrepCopy ==
    /\ call.op = "prepare" /\ call.step = "copy"
    /\ IF call.container_dir # RemoteProjectDir
       THEN IF call.copyFails \/ call.fs[call.container_dir] \in {"absent", "file"}
            THEN PrepFail("CopyFailed")
            ELSE PrepStep([call EXCEPT !.step = "build",
                                       !.fs[RemoteProjectDir] = call.fs[call.container_dir]])
       ELSE PrepStep([call EXCEPT !.step = "build",
                                  !.fs[RemoteProjectDir] =
                                      IF @ = "absent" THEN "empty" ELSE @])

\* 161-171: docker build with cwd = /opt/deploy/<page_hash>; without the build
\* recipe the build fails
PrepBuild ==
    /\ call.op = "prepare" /\ call.step = "build"
    /\ IF call.fs[RemoteProjectDir] = "project"
       THEN PrepStep([call EXCEPT !.step = "built", !.context = call.fs[RemoteProjectDir]])
       ELSE PrepStep([call EXCEPT !.step = "failed", !.context = call.fs[RemoteProjectDir],
                                  !.error = "BuildFailed"])

NextPrep == PrepInfo \/ PrepCheck \/ PrepRemove \/ PrepCopy \/ PrepBuild

SpecPrep == InitPrep /\ [][NextPrep]_vars

(***************************************************************************)
(* ContainerRegistry: objects made on the same registry file.  An object   *)
(* reads the file when it is constructed and writes its own dictionary on  *)
(* every register_container.                                               *)
(***************************************************************************)
RegistryObjects == {"A", "B"}

EmptyRegistry == [g \in Fingerprints |-> NoRecord]

InitReg ==
    /\ HostStill
    /\ call = [op |-> "registry", file |-> EmptyRegistry,
               built |-> [o \in RegistryObjects |-> FALSE],
               mem |-> [o \in RegistryObjects |-> EmptyRegistry],
               latest |-> EmptyRegistry, calls |-> 0]

\* __init__: self.registry = {} and _load_registry()
NewContainerRegistry(o) ==
    /\ call.op = "registry" /\ ~call.built[o]
    /\ call' = [call EXCEPT !.built[o] = TRUE, !.mem[o] = call.file]
    /\ UNCHANGED <<hostVars, reqVars, histVars>>

\* register_container: self.registry[page_hash] = {...} and _save_registry(),
\* which writes self.registry as the whole file; latest keeps, for the
\* property, the record last registered for every fingerprint
RegisterContainer(o, h, p) ==
    /\ call.op = "registry" /\ call.built[o] /\ call.calls < MaxRegisters
    /\ LET mine == SavedDocument(call.mem[o], h, p, ContainerName(h)) IN
         call' = [call EXCEPT !.mem[o] = mine, !.file = mine,
                              !.latest[h] = mine[h], !.calls = @ + 1]
    /\ UNCHANGED <<hostVars, reqVars, histVars>>

NextReg ==
    \/ \E o \in RegistryObjects : NewContainerRegistry(o)
    \/ \E o \in RegistryObjects, h \in Fingerprints, p \in Ports : RegisterContainer(o, h, p)

SpecReg == InitReg /\ [][NextReg]_vars

InitMat == HostStill /\ call \in {c \in MatCalls : c.failAt <= Len(c.files) + 1}

CallCreateContainer ==
    /\ call.op = "create_container" /\ ~call.done
    /\ call' = [call EXCEPT !.done = TRUE,
                            !.result = CreateContainer(call.page_hash, call.files, call.before, call.failAt)]
    /\ UNCHANGED <<hostVars, reqVars, histVars>>

NextMat == CallCreateContainer

SpecMat == InitMat /\ [][NextMat]_vars

(***************************************************************************)
(* The properties.                                                         *)
(***************************************************************************)
\* what belongs to fingerprint h: its containers, its registry record, its
\* fragment files, its project directory and the copy under /opt/deploy
Belongings(h) ==
    << {c \in containers : c.name = ContainerName(h)},
       registry[h],
       {f \in fragments : f.path[2] = h},
       projDirs[h],
       remoteDirs[h] >>

FragmentsOf(h) == {f \in fragments : f.path[1] = DeployConfigDir /\ f.path[2] = h}

\* C1: in both modes, when the build of deploy(F) fails, a container deploy-F
\* that was running when the call began is still running, on its port, when the
\* build error is returned
C1_BuildFailureKeepsContainer ==
    \A w \in Workers :
        (pc[w] = "failed" /\ err[w] = "BuildFailed" /\ pre[w] # NoPort)
            => RunningPort(fp[w]) = pre[w]

C3_PortReuse ==
    \A w \in Workers :
        (pc[w] = "done" /\ lastPort[fp[w]] # NoPort /\ ~taken[fp[w]])
            => hostPort[w] = lastPort[fp[w]]

\* C4: the registry document never holds one host port for two fingerprints
C4_RegistryPortsDistinct ==
    \A g \in Fingerprints, h \in Fingerprints :
        (g # h /\ registry[g] # NoRecord /\ registry[h] # NoRecord)
            => registry[g].container_port # registry[h].container_port

C9_OneFragmentLastPublish ==
    /\ [](\A h \in Fingerprints : Cardinality(FragmentsOf(h)) <= 1)
    /\ [][\A h \in Fingerprints :
            IF \E w \in Workers : fp[w] = h /\ pc[w] = "n_write" /\ pc'[w] # pc[w]
            THEN \E w \in Workers :
                    /\ fp[w] = h /\ pc[w] = "n_write" /\ pc'[w] # pc[w]
                    /\ FragmentsOf(h)' =
                          {[path |-> LocationConfigFile(h),
                            content |-> <<GenerateNginxLocation(h, hostPort[w])>>]}
            ELSE FragmentsOf(h)' = FragmentsOf(h)]_vars

\* F is published again, for another port than the one published and recorded before
C9_Witness ==
    \E w \in Workers :
        /\ pc[w] = "n_read" /\ registry[fp[w]] # NoRecord
        /\ registry[fp[w]].container_port # hostPort[w]
        /\ FragmentsOf(fp[w]) =
              {[path |-> LocationConfigFile(fp[w]),
                content |-> <<GenerateNginxLocation(fp[w], hostPort[w])>>]}

NamesDiffer(files) == \A i, j \in 1..Len(files) : i # j => files[i].name # files[j].name

\* C6: generate_hash gives one fingerprint for one owner and any two orders of
\* one list of entries, lists with two entries of one name included
C6_PermutationInvariant ==
    (call.op = "generate_hash" /\ call.done) => call.hash = call.hash_again

\* C6 as the code has it: generate_hash gives one fingerprint for one owner and
\* any two orders of one list of entries whose names all differ, a dict
\* content counted the same whatever the order of its keys
C6_PermutationInvariantDistinctNames ==
    (call.op = "generate_hash" /\ call.done /\ NamesDiffer(call.files))
        => call.hash = call.hash_again

C6_Witness ==
    /\ call.op = "generate_hash" /\ call.done
    /\ NamesDiffer(call.files) /\ Len(call.files) = 2
    /\ call.again[1].name = call.files[2].name
    /\ call.again[1].content # call.files[2].content
    /\ call.hash = call.hash_again

NoFileNamed(files, name) == \A i \in 1..Len(files) : files[i].name # name

NoFileStoredAs(files, name) == \A i \in 1..Len(files) : LStripSlash(files[i].name) # name

\* the call failed and a project directory it created is gone
FailedAndCleaned ==
    /\ call.result.err # ""
    /\ call.before # "dir" => call.result.dir = "absent"

EscapingName(proj, name) ==
    \/ \E k \in 1..Len(SplitSlash(name, <<>>)) : SplitSlash(name, <<>>)[k] = <<".", ".">>
    \/ ~Inside(proj, AbsPath(proj, LStripSlash(name)))

HasEscapingName(proj, files) == \E i \in 1..Len(files) : EscapingName(proj, files[i].name)

FirstEscaping(proj, files) ==
    CHOOSE i \in 1..Len(files) :
        /\ EscapingName(proj, files[i].name)
        /\ \A j \in 1..(i - 1) : ~EscapingName(proj, files[j].name)

UnsafePathErrors == {"UnsafePath", "OutsideProject"}

WrittenInside(proj, written) == \A path \in written : Inside(proj, path)

\* C8: on a file list with a name that has a ".." segment or resolves outside
\* the project directory create_container fails with the unsafe-path error
\* and writes no file outside the project directory (no write raising)
C8_UnsafePathRejected ==
    (call.op = "create_container" /\ call.done /\ call.failAt = 0
        /\ HasEscapingName(ProjectDir(call.page_hash), call.files))
        => /\ call.result.err \in UnsafePathErrors
           /\ WrittenInside(ProjectDir(call.page_hash), call.result.written)

\* C8 as the code has it: on such a list create_container fails and writes no
\* file outside the project directory; the error is the unsafe-path error
\* when the entries before the first such name are stored without an error,
\* and the error of the first of them that is not otherwise
C8_UnsafePathFails ==
    (call.op = "create_container" /\ call.done
        /\ HasEscapingName(ProjectDir(call.page_hash), call.files))
        => LET proj   == ProjectDir(call.page_hash)
               first  == FirstEscaping(proj, call.files)
               before == SaveFrom(proj, SubSeq(call.files, 1, first - 1), 1, call.failAt,
                                  SaveInit(proj))
           IN  /\ call.result.err # ""
               /\ call.result.err = (IF before.err = "" THEN "UnsafePath" ELSE before.err)
               /\ WrittenInside(proj, call.result.written)

C8_Witness ==
    /\ call.op = "create_container" /\ call.done
    /\ Len(call.files) = 2
    /\ call.files[1].name = ManifestName
    /\ EscapingName(ProjectDir(call.page_hash), call.files[2].name)
    /\ call.result.written = {Append(ProjectDir(call.page_hash), ManifestName)}
    /\ call.result.err = "UnsafePath"
    /\ call.result.dir = "absent"

\* C11: after a successful deploy of F the registry's value for F holds the
\* three fields container_name = "deploy-F", container_port = the port the
\* deploy returned and image_name = "deploy-F" (here: where a record is saved
\* at all, in direct mode)
C11_RecordHasThreeFields ==
    \A w \in Workers :
        (pc[w] = "done" /\ ~env.LOCAL_TEST)
            => LET record == registry[fp[w]]
               IN  /\ {"container_name", "container_port", "image_name"} \subseteq DOMAIN record
                   /\ record.container_name = ContainerName(fp[w])
                   /\ record.container_port = hostPort[w]
                   /\ record.image_name = ImageName(fp[w])

\* C12: in both modes a deploy that completes has created or updated the record
\* of its fingerprint, and no step ever deletes a record
C12_RecordSavedInBothModes ==
    /\ [](\A w \in Workers :
            pc[w] = "done" => /\ registry[fp[w]] # NoRecord
                              /\ registry[fp[w]].container_port = hostPort[w])
    /\ [][\A h \in Fingerprints : registry[h] # NoRecord => registry'[h] # NoRecord]_vars

\* C13: after a successful direct-mode deploy of F the port deploy-F is bound
\* to, the container_port of F's record and the port F's fragment forwards /F/
\* to are one port
C13_ThreePortsAgree ==
    \A w \in Workers :
        (pc[w] = "done" /\ ~env.LOCAL_TEST)
            => /\ hostPort[w] \in Ports
               /\ RunningPort(fp[w]) = hostPort[w]
               /\ registry[fp[w]].container_port = hostPort[w]
               /\ \A f \in FragmentsOf(fp[w]) :
                    \A i \in 1..Len(f.content) :
                        f.content[i].location = fp[w] /\ f.content[i].proxy_pass = hostPort[w]
               /\ FragmentsOf(fp[w]) # {}

\* a redeploy in direct mode ended on another port than the deploy before it
C13_Witness ==
    \E w \in Workers :
        /\ pc[w] = "done" /\ ~env.LOCAL_TEST
        /\ lastPort[fp[w]] # NoPort /\ lastPort[fp[w]] # hostPort[w]
        /\ RunningPort(fp[w]) = hostPort[w]
        /\ registry[fp[w]].container_port = hostPort[w]
        /\ \E f \in FragmentsOf(fp[w]) : f.content = <<GenerateNginxLocation(fp[w], hostPort[w])>>

\* C15: when the project directory of the fingerprint exists already,
\* create_container reuses it as it is and writes no file into it
C15_ReuseSkipsWrites ==
    (call.op = "create_container" /\ call.done /\ call.before = "dir")
        => /\ call.result.reused
           /\ call.result.written = {}

\* C16: when create_container fails it removes the project directory only if
\* this call created it; a directory that existed before the call is still there
C16_CleanupOnlyIfCreated ==
    (call.op = "create_container" /\ call.done /\ call.result.err # "")
        => call.result.dir = (IF call.before = "dir" THEN "dir" ELSE "absent")

\* C17: two inputs (owner id, file set) that differ in the owner id, in a file
\* name or in a file's content never give generate_hash the same string to hash
C17_DigestInputInjective ==
    (call.op = "generate_hash_twice" /\ call.done
        /\ (call.telegram_id # call.other_id \/ ~IsReordering(call.files, call.other_files)))
        => call.data # call.other_data

Published(w) ==
    FragmentsOf(fp[w]) = {[path |-> LocationConfigFile(fp[w]),
                           content |-> <<GenerateNginxLocation(fp[w], hostPort[w])>>]}

\* C14: when every reload mechanism fails the publish goes on all the same:
\* nothing is raised by the cascade, the fragment stays in place, the record
\* is saved and the deploy ends without an error
C14_ReloadFailureNotFatal ==
    /\ [][\A w \in Workers :
            (pc[w] = "n_reload" /\ pc'[w] = "failed") => err'[w] = "CommandTimeout"]_vars
    /\ [](\A w \in Workers :
            (pc[w] \in {"n_read", "n_save", "done"} /\ ~env.LOCAL_TEST /\ ~reload_success[w])
                => Published(w) /\ err[w] = "")
    /\ [][\A w \in Workers :
            (pc[w] \in {"n_read", "n_save"} /\ pc'[w] # pc[w]) => pc'[w] \in {"n_save", "done"}]_vars
    /\ [](\A w \in Workers :
            (pc[w] = "done" /\ ~env.LOCAL_TEST /\ ~reload_success[w])
                => /\ registry[fp[w]].container_port = hostPort[w]
                   /\ registry[fp[w]].container_name = ContainerName(fp[w]))

\* a direct deploy has ended well with no reload having succeeded
C14_Witness ==
    \E w \in Workers :
        /\ pc[w] = "done" /\ ~env.LOCAL_TEST /\ ~reload_success[w]
        /\ Published(w)
        /\ registry[fp[w]].container_port = hostPort[w]

\* the place of a mechanism in the order of the code
MechanismIndex(m) == CHOOSE k \in 1..Len(Mechanisms) : Mechanisms[k] = m

\* C18: the cascade runs the mechanisms in the order HUP signal, docker exec,
\* systemctl, nginx -s reload, each at most once, and runs none after one
\* that succeeded
C18_FixedOrderFirstSuccessStops ==
    /\ Mechanisms = <<"kill -HUP", "docker exec", "systemctl reload", "nginx -s reload">>
    /\ [](call.op = "reload" =>
            LET tried == call.st.tried IN
            /\ \A i, j \in 1..Len(tried) :
                   i < j => MechanismIndex(tried[i]) < MechanismIndex(tried[j])
            /\ \A i \in 1..Len(tried) : MechanismIndex(tried[i]) < call.step
            /\ \A i \in 1..Len(tried) : i < Len(tried) => call.host.rc[tried[i]] # "ok"
            /\ call.st.reload_success <=>
                   (tried # <<>> /\ call.host.rc[tried[Len(tried)]] = "ok"))
    /\ [][call.op = "reload" =>
            /\ call.st.reload_success => call'.st = call.st
            /\ \/ call'.st.tried = call.st.tried
               \/ call'.st.tried = Append(call.st.tried, Mechanisms[call.step])]_vars
    /\ [](call.op = "reload" /\ call.step > Len(Mechanisms) => call.st = ReloadCascade(call.host))

\* on a host where all four mechanisms can be run, the signal failed, docker
\* exec succeeded, and the cascade is over with the last two never run
C18_Witness ==
    /\ call.op = "reload" /\ call.step > Len(Mechanisms)
    /\ call.host.pid /\ call.host.systemctl /\ call.host.nginx_cmd
    /\ call.st.tried = <<"kill -HUP", "docker exec">>
    /\ call.st.reload_success

\* the words of a configuration, line after line
RECURSIVE WordsOf(_)
WordsOf(content) == IF content = <<>> THEN <<>> ELSE Head(content) \o WordsOf(Tail(content))

\* braces open after the words p..q
OpenBraces(words, p, q) ==
    Cardinality({k \in p..q : words[k] \in {"server {", "x {"}})
        - Cardinality({k \in p..q : words[k] = "}"})

\* a server block: "server {" and, somewhere after it, the brace closing it
HasServerBlock(content) ==
    /\ content # NoConfig
    /\ LET words == WordsOf(content) IN
       \E p \in 1..Len(words) :
           /\ words[p] = "server {"
           /\ \E q \in p..Len(words) :
                 /\ OpenBraces(words, p, q) = 0
                 /\ \A r \in p..(q - 1) : OpenBraces(words, p, r) > 0

\* how many times the include line stands in a configuration
CountIncludes(content) ==
    IF content = NoConfig THEN 0
    ELSE Cardinality({i \in 1..Len(content) : content[i] = IncludeLine})

\* C20: after one or more publishes against a main configuration with a
\* server block (and the include at most once in it to begin with) the
\* include line stands in it exactly once, and a configuration that includes
\* the directory already is not written again
C20_IncludeExactlyOnce ==
    call.op = "ensure_include" =>
        /\ (HasServerBlock(call.initial) /\ CountIncludes(call.initial) <= 1 /\ call.publishes >= 1)
               => CountIncludes(call.content) = 1
        /\ (call.publishes >= 1 /\ CountIncludes(call.before) >= 1)
               => (~call.written /\ call.content = call.before)

\* C21: in local mode, when the computed port was found occupied and docker
\* was asked for a dynamic one, the port deploy_container returns is the
\* port the container is bound to
C21_DynamicPortReadBack ==
    [][\A w \in Workers :
          (pc[w] = "l_port" /\ pc'[w] = "nginx" /\ dynamic[w])
              => hostPort'[w] = RunningPort(fp[w])]_vars

\* C22: the directories of a fingerprint's project files, once there, stay:
\* a redeploy neither deletes the project directory nor removes and
\* recreates its copy under /opt/deploy
C22_DirectoryKeptOnRedeploy ==
    [][/\ \A h \in Fingerprints : projDirs[h] = "dir" => projDirs'[h] = "dir"
       /\ \A w \in Workers : "rmtree" \notin log'[w]]_vars

C24_EveryDeployEnds ==
    /\ \A w \in Workers : (pc[w] = "create") ~> (pc[w] \in {"done", "failed"})
    /\ [](\A w \in Workers : /\ pc[w] = "done" => hostPort[w] # NoPort
                             /\ pc[w] = "failed" => err[w] # "")

\* the statements of a request up to the return of deploy_container
LifecycleStages ==
    {"create", "mode", "d_info", "d_prepare", "d_build", "d_check", "d_stop", "d_rm", "d_port",
     "d_run", "l_info", "l_stop", "l_rm", "l_build", "l_probe", "l_run", "l_port"}

\* the errors raised there
LifecycleErrors ==
    {"UnsafePath", "WriteFailed", "MissingManifest", "ModeUndetermined", "RuntimeUnavailable",
     "SourceMissing", "CopyFailed", "BuildFailed", "NoFreePort", "StartFailed"}

\* C25: a deploy that fails in the lifecycle (creating the project, choosing
\* the mode, reaching docker, copying, building, starting) leaves the
\* registry document and the fragment files as they were when it began:
\* nothing writes them while the request is there, nor once it has failed
C25_FailedDeployKeepsRoutes ==
    /\ [][\A w \in Workers :
            (pc[w] \in LifecycleStages \/ pc[w] = "failed" \/ err[w] \in LifecycleErrors)
                => (registry' = registry /\ fragments' = fragments)]_vars
    /\ [](\A w \in Workers : pc[w] \in LifecycleStages => err[w] = "")
    /\ [][\A w \in Workers :
            (pc[w] \in LifecycleStages /\ pc'[w] = "failed") => err'[w] \in LifecycleErrors]_vars

\* a redeploy of a published fingerprint has failed to start its container
C25_Witness ==
    \E w \in Workers :
        /\ pc[w] = "failed" /\ err[w] = "StartFailed"
        /\ registry[fp[w]] # NoRecord
        /\ FragmentsOf(fp[w]) # {}

\* C26: the fragment of a fingerprint never forwards to a port on which the
\* container of another fingerprint listens
C26_FragmentNeverPointsAtOther ==
    \A f \in fragments : \A c \in containers :
        (c.status = "running" /\ c.port = f.content[Len(f.content)].proxy_pass)
            => c.name = ContainerName(f.path[2])

\* the fragment nginx reads first: include .../*.conf takes the files in the
\* order of their names
ServedFirst(frs) ==
    CHOOSE f \in frs :
        \A g \in frs : g = f \/ StrLess(HashChars(f.path[2]), HashChars(g.path[2]))

\* where /_astro/, /assets/, /node_modules/, /public/ go: every fragment has
\* the rule "location ~ ^/(_astro|assets|node_modules|public)/", and of equal
\* regular-expression locations nginx uses the first it has read
AssetUpstream(frs) ==
    IF frs = {} THEN NoPort
    ELSE ServedFirst(frs).content[Len(ServedFirst(frs).content)].assets_proxy_pass

\* where /h/ goes: "location /h/" of the fragment of h
PageUpstream(frs, h) ==
    IF \E f \in frs : f.path[2] = h
    THEN LET f == CHOOSE g \in frs : g.path[2] = h IN f.content[Len(f.content)].proxy_pass
    ELSE NoPort

\* C27: writing the fragment of one fingerprint changes the upstream of no
\* path that went to the port of another fingerprint before: not of its
\* /h/ and not of the asset paths
C27_PublishKeepsOtherUpstreams ==
    [][\A w \in Workers : \A h \in Fingerprints :
          (pc[w] = "n_write" /\ pc'[w] = "n_include" /\ h # fp[w]
           /\ PageUpstream(fragments, h) # NoPort)
              => /\ PageUpstream(fragments', h) = PageUpstream(fragments, h)
                 /\ AssetUpstream(fragments) = PageUpstream(fragments, h)
                        => AssetUpstream(fragments') = AssetUpstream(fragments)]_vars

\* C28: saving the record of one fingerprint keeps the records the document
\* held for the others, also when the document cannot be read at that moment
C28_SaveKeepsOtherRecords ==
    (call.op = "save_registry" /\ call.done)
        => \A g \in Fingerprints \ {call.page_hash} : call.result[g] = call.disk[g]

\* C29: in direct mode the materialized source directory survives the
\* preparation of /opt/deploy/<fingerprint>, and the build, when it is
\* reached, runs in a directory that holds the project, whichever directory
\* was passed in
C29_BuildContextHoldsProject ==
    call.op = "prepare"
        => /\ (call.source = "project" /\ call.step \notin {"info", "check", "remove"})
                  => call.fs[call.container_dir] = "project"
           /\ call.context \in {"none", "project"}

\* C30: with several ContainerRegistry objects on one file, after any sequence
\* of register_container calls the file holds, for every fingerprint, the
\* record registered last
C30_FileHoldsLatestRecords ==
    call.op = "registry" => call.file = call.latest

====
